---- MODULE Spec2Model ----
(***************************************************************************)
(* The signal ledger of DividendsPro_PubLedger: the append path            *)
(* (engine/signal_engine.py), record hashing (engine/hashing.py), signing  *)
(* (engine/signing.py) and the read path (verification/verify_chain.py,    *)
(* verification/verify_signature.py).                                      *)
(*                                                                         *)
(* SHA-256 and Ed25519 are modelled symbolically: a digest is the term     *)
(* "sha256 of this payload", a signature is the term "signature of this    *)
(* message under this key"; two digests are equal iff their payloads are.  *)
(* A stored line is either a JSON object, a blank line or a line that is   *)
(* not JSON.                                                               *)
(***************************************************************************)
EXTENDS Integers, Sequences, FiniteSets, TLC

VARIABLES
    now,            \* wall clock (UTC), in ticks of one look-back window
    signals,        \* SIGNALS_DIR: day |-> the lines of <day>.jsonl
    pc,             \* position of process_signals: "idle" or "loop"
    candidates,     \* process_signals: candidates not yet looked at
    file_path,      \* process_signals: the partition opened for append
    previous_hash,  \* process_signals: chain state
    existing_ids,   \* process_signals: identities already stored
    new_entries_count, \* process_signals: records appended by this run
    wbuf,           \* lines written to f and not yet flushed to the file
    tamper,         \* external modifications of the store so far
    out,            \* what the last step reported: a verification's result, how a run started or stopped
    probe           \* a record handed to verify_entry_signature on its own

vars == <<now, signals, pc, candidates, file_path, previous_hash,
          existing_ids, new_entries_count, wbuf, tamper, out, probe>>

----------------------------------------------------------------------------
(* Bounds.  The clock counts look-back windows (60 minutes); a UTC day is
   TicksPerDay of them. *)

MaxNow == 1
TicksPerDay == 1
MaxBatch == 2
MaxLines == 2
MaxTamper == 1
MaxStoreLines == 2

(* minutes_back=60: one tick of the clock *)
LookBack == 1

Day(t) == t \div TicksPerDay
Days == 0..Day(MaxNow)

----------------------------------------------------------------------------
(* Values *)

GENESIS == [kind |-> "GENESIS"]
NoneValue == [kind |-> "None"]
EmptyString == [kind |-> "empty"]

isinstance_str(v) == v.kind \notin {"None", "number"}
truthy(v) == v.kind \notin {"None", "empty"}

Assets == {<<"a">>, <<"b">>}
NoScore == -1
(* credibility, per token, in the rows of token_state_60s: NULL or a number *)
credibility(token) == IF token = <<"a">> THEN NoScore ELSE 7
Verdicts == {"ACCUMULATION"}
Digit == [t \in 0..9 |-> CASE t = 0 -> "0" [] t = 1 -> "1" [] t = 2 -> "2"
                           [] t = 3 -> "3" [] t = 4 -> "4" [] t = 5 -> "5"
                           [] t = 6 -> "6" [] t = 7 -> "7" [] t = 8 -> "8"
                           [] OTHER -> "9"]

(* row['timestamp_utc'].isoformat() *)
isoformat(t) == <<"T", Digit[t]>>

get(entry, k) == IF k \in DOMAIN entry THEN entry[k] ELSE NoneValue

----------------------------------------------------------------------------
(* engine/hashing.py *)

ValueError == [kind |-> "ValueError"]

sha256(payload) == [kind |-> "sha256", of |-> payload]

(* Variant of clean_entry that also leaves the score out of the hash. *)
clean_entry_without_score(entry_dict) ==
    [k \in DOMAIN entry_dict \ {"entry_hash", "signature", "score"} |-> entry_dict[k]]

(* Lines 23-27.  json.dumps with sort_keys of the cleaned dict is the dict
   itself as a function of its keys: insertion order plays no part. *)
clean_entry(entry_dict) ==
    [k \in DOMAIN entry_dict \ {"entry_hash", "signature"} |-> entry_dict[k]]

(* Lines 20-39: ValueError unless previous_hash is a str; else the digest of
   serialized_json + previous_hash. *)
compute_entry_hash(entry_dict, prev) ==
    IF ~isinstance_str(prev) THEN ValueError
    ELSE sha256(<<clean_entry(entry_dict), prev>>)

----------------------------------------------------------------------------
(* engine/signing.py, and the nacl and base64 calls of both sides *)

WriterKey == "sk_writer"
OtherKey == "sk_other"
PrivateKeys == {WriterKey, OtherKey}
verify_key(sk) == IF sk = WriterKey THEN "pk_writer" ELSE "pk_other"
PublicKeys == {verify_key(sk) : sk \in PrivateKeys}
WriterPublicKey == verify_key(WriterKey)

encode_utf8(s) == [enc |-> "utf-8", text |-> s]
raw_digest(s) == [enc |-> "digest", text |-> s]

ed25519_sign(sk, msg) == [kind |-> "ed25519", key |-> sk, msg |-> msg]
ed25519_verify(pk, msg, sig) ==
    /\ sig.kind = "ed25519"
    /\ verify_key(sig.key) = pk
    /\ sig.msg = msg

(* b64encode gives the canonical text (slack 0); b64decode drops characters
   outside the alphabet and the unused low bits of the last character, so
   texts that differ only in such slack decode to the same bytes. *)
b64encode(bytes) == [kind |-> "b64", bytes |-> bytes, slack |-> 0]
b64decode(text) == text.bytes

(* What LEDGER_PRIVATE_KEY can hold when a run starts: the deployment's key in
   hex, nothing (unset or empty), or text that is not a key. *)
HexKey(sk) == [kind |-> "hex", key |-> sk]
UndecodableKey == [kind |-> "text"]
KeyEnvironment == {HexKey(WriterKey), NoneValue, EmptyString, UndecodableKey}

(* Variant of Signer.__init__ that falls back to a built-in key. *)
Signer_with_default_key(private_key_hex) == [signing_key |-> WriterKey]

(* Signer.__init__, lines 16-26: the signer, or the ValueError raised. *)
Signer(private_key_hex) ==
    IF ~truthy(private_key_hex) THEN ValueError
    ELSE IF private_key_hex.kind # "hex" THEN ValueError
    ELSE [signing_key |-> private_key_hex.key]

(* Variant of sign_entry that signs the digest bytes, not the hex text. *)
sign_entry_digest(sk, entry_hash) ==
    IF ~truthy(entry_hash) THEN ValueError
    ELSE b64encode(ed25519_sign(sk, raw_digest(entry_hash)))

(* Signer.sign_entry with the signer's key sk. *)
sign_entry(sk, entry_hash) ==
    IF ~truthy(entry_hash) THEN ValueError
    ELSE b64encode(ed25519_sign(sk, encode_utf8(entry_hash)))

----------------------------------------------------------------------------
(* Stored lines *)

json_dumps(entry) == [kind |-> "json", obj |-> entry]
BadLine == [kind |-> "garbage"]
BlankLine == [kind |-> "blank"]
(* The text of a record's line cut short before its end: the part of the
   line a reader finds while the rest, newline included, is still to come. *)
PartialLine(entry) == [kind |-> "partial", of |-> entry]
is_blank(line) == line.kind = "blank"
is_json(line) == line.kind = "json"
json_loads(line) == line.obj

----------------------------------------------------------------------------
(* engine/data_sources.py *)

Window(t) == {w \in 0..t : w >= t - LookBack}

RawRows(t) ==
    { [token |-> a, verdict |-> v, score |-> credibility(a), window_ends_at |-> w] :
        a \in Assets, v \in Verdicts, w \in Window(t) }

(* ORDER BY window_ends_at ASC *)
Ordered(rows) ==
    \A i \in 1..Len(rows) - 1 :
        rows[i].window_ends_at <= rows[i + 1].window_ends_at

RowDict(r) == [token |-> r.token, verdict |-> r.verdict, score |-> r.score,
               timestamp_utc |-> isoformat(r.window_ends_at)]

fetch_new_verdicts(t) ==
    { [i \in 1..Len(rows) |-> RowDict(rows[i])] :
        rows \in { q \in UNION { [1..n -> RawRows(t)] : n \in 0..MaxBatch } :
                    Ordered(q) } }

----------------------------------------------------------------------------
(* engine/signal_engine.py *)

get_today_file_path(t) == Day(t)

exists(path) == path \in DOMAIN signals

(* Reading the last line: None when the file is missing or empty, when the
   last line is blank, and when parsing it raises. *)
load_last_entry(path) ==
    IF ~exists(path) THEN NoneValue
    ELSE LET lines == signals[path] IN
         IF lines = <<>> THEN NoneValue
         ELSE LET last_line == lines[Len(lines)] IN
              IF is_blank(last_line) THEN NoneValue
              ELSE IF ~is_json(last_line) THEN NoneValue
              ELSE json_loads(last_line)

(* Variant of lines 92 and 101 that takes the asset alone as the identity. *)
uid_of_asset(asset, timestamp) == asset

(* Lines 92 and 101 *)
uid_of(asset, timestamp) == asset \o <<"_">> \o timestamp

existing_entries(path) ==
    IF ~exists(path) THEN <<>>
    ELSE SelectSeq(signals[path], LAMBDA line : ~is_blank(line))

ids_of(lines) ==
    { uid_of(get(json_loads(lines[i]), "asset"),
             get(json_loads(lines[i]), "timestamp_utc")) : i \in 1..Len(lines) }

(* Variant of line 133 that forgets the identity just appended. *)
ids_unchanged(ids, uid) == ids

(* Line 133 *)
ids_after_append(ids, uid) == ids \cup {uid}

(* Variant of line 131 that carries the old chain state on. *)
stale_previous_hash(prev, entry_hash) == prev

(* Line 131 *)
next_previous_hash(prev, entry_hash) == entry_hash

float_or_zero(score) == IF score = NoScore \/ score = 0 THEN 0 ELSE score

build_entry(candidate, prev) ==
    [asset |-> candidate.token,
     score |-> float_or_zero(candidate.score),
     state |-> candidate.verdict,
     ruleset_version |-> "1.1.0",
     timestamp_utc |-> candidate.timestamp_utc,
     previous_hash |-> prev]

(* Variant of lines 121-125 that leaves the signature out of the record. *)
entry_without_signature(entry, entry_hash, signature) ==
    [k \in DOMAIN entry \cup {"entry_hash"} |->
        IF k = "entry_hash" THEN entry_hash ELSE entry[k]]

(* Lines 121, 125 *)
finish_entry(entry, entry_hash, signature) ==
    [k \in DOMAIN entry \cup {"entry_hash", "signature"} |->
        IF k = "entry_hash" THEN entry_hash
        ELSE IF k = "signature" THEN signature
        ELSE entry[k]]

(* Variant of line 96 that opens the file with mode 'w'. *)
open_for_write(path) == <<>>

(* Line 96, open(file_path, 'a'): the lines of the file once it is open. *)
open_for_append(path) == IF exists(path) THEN signals[path] ELSE <<>>

TotalLines ==
    LET RECURSIVE Sum(_)
        Sum(S) == IF S = {} THEN 0
                  ELSE LET d == CHOOSE x \in S : TRUE
                       IN Len(existing_entries(d)) + Sum(S \ {d})
    IN Sum(DOMAIN signals) + Len(wbuf)

NotRun == [kind |-> "none"]

(* Lines 51-96: the signer is set up, candidates are fetched, the chain state
   and the identities of today's partition are loaded, and the partition is
   opened for append (which creates it).  A line of today's partition that is
   not JSON makes the load at line 85 raise before anything is written. *)
process_signals_begin ==
    /\ pc = "idle"
    /\ \E private_key_hex \in KeyEnvironment :
          /\ Signer(private_key_hex) # ValueError
          /\ out' = [kind |-> "process_signals", key |-> private_key_hex]
    /\ \E cs \in fetch_new_verdicts(now) :
        LET path == get_today_file_path(now)
            last_entry == load_last_entry(path)
            stored == existing_entries(path)
        IN /\ cs # <<>>
           /\ TotalLines + Len(cs) <= MaxLines
           /\ \A i \in 1..Len(stored) : is_json(stored[i])
           /\ candidates' = cs
           /\ file_path' = path
           /\ previous_hash' = IF last_entry = NoneValue THEN GENESIS
                               ELSE last_entry["entry_hash"]
           /\ existing_ids' = ids_of(stored)
           /\ signals' = (path :> open_for_append(path)) @@ signals
    /\ new_entries_count' = 0
    /\ pc' = "loop"
    /\ UNCHANGED <<now, wbuf, tamper, probe>>

(* Lines 62-68: the signer is set up, nothing is fetched, the run returns. *)
process_signals_no_candidates ==
    /\ pc = "idle"
    /\ <<>> \in fetch_new_verdicts(now)
    /\ \E private_key_hex \in KeyEnvironment :
          /\ Signer(private_key_hex) # ValueError
          /\ out' = [kind |-> "process_signals", key |-> private_key_hex]
    /\ UNCHANGED <<now, signals, pc, candidates, file_path, previous_hash,
                   existing_ids, new_entries_count, wbuf, tamper, probe>>

(* Lines 55-60: Signer() raises, the error is logged and the run returns. *)
process_signals_no_signer ==
    /\ pc = "idle"
    /\ \E private_key_hex \in KeyEnvironment :
          /\ Signer(private_key_hex) = ValueError
          /\ out' = [kind |-> "process_signals", key |-> private_key_hex]
    /\ UNCHANGED <<now, signals, pc, candidates, file_path, previous_hash,
                   existing_ids, new_entries_count, wbuf, tamper, probe>>

(* Lines 97-133: one candidate. *)
process_signals_candidate ==
    /\ pc = "loop"
    /\ candidates # <<>>
    /\ LET candidate == Head(candidates)
           asset == candidate.token
           timestamp == candidate.timestamp_utc
           uid == uid_of(asset, timestamp)
           entry == build_entry(candidate, previous_hash)
           entry_hash == compute_entry_hash(entry, previous_hash)
           signature == sign_entry(WriterKey, entry_hash)
       IN IF uid \in existing_ids
          THEN UNCHANGED <<previous_hash, existing_ids, new_entries_count, wbuf>>
          ELSE /\ wbuf' = Append(wbuf,
                        json_dumps(finish_entry(entry, entry_hash, signature)))
               /\ previous_hash' = next_previous_hash(previous_hash, entry_hash)
               /\ new_entries_count' = new_entries_count + 1
               /\ existing_ids' = ids_after_append(existing_ids, uid)
    /\ candidates' = Tail(candidates)
    /\ out' = NotRun
    /\ UNCHANGED <<now, signals, pc, file_path, tamper, probe>>

(* Line 128: text written to f reaches the file when the buffer is flushed,
   at the latest when the with block closes f. *)
flush ==
    /\ pc = "loop"
    /\ wbuf # <<>>
    /\ signals' = [signals EXCEPT ![file_path] = @ \o wbuf]
    /\ wbuf' = <<>>
    /\ out' = NotRun
    /\ UNCHANGED <<now, pc, candidates, file_path, previous_hash,
                   existing_ids, new_entries_count, tamper, probe>>

(* Lines 96, 135: the loop is over, f is closed, the process ends. *)
process_signals_end ==
    /\ pc = "loop"
    /\ candidates = <<>>
    /\ signals' = [signals EXCEPT ![file_path] = @ \o wbuf]
    /\ wbuf' = <<>>
    /\ pc' = "idle"
    /\ file_path' = 0
    /\ previous_hash' = GENESIS
    /\ existing_ids' = {}
    /\ new_entries_count' = 0
    /\ out' = NotRun
    /\ UNCHANGED <<now, candidates, tamper, probe>>

(* Lines 96-133: an exception raised while the next candidate is read,
   built, hashed or signed leaves the with block, which flushes what was
   written and closes f, and ends the process. *)
process_signals_raises ==
    /\ pc = "loop"
    /\ candidates # <<>>
    /\ signals' = [signals EXCEPT ![file_path] = @ \o wbuf]
    /\ wbuf' = <<>>
    /\ pc' = "idle"
    /\ candidates' = <<>>
    /\ file_path' = 0
    /\ previous_hash' = GENESIS
    /\ existing_ids' = {}
    /\ new_entries_count' = 0
    /\ out' = [kind |-> "stopped", how |-> "raised", unwritten |-> 0]
    /\ UNCHANGED <<now, tamper, probe>>

(* The process is stopped from outside in the middle of a batch: what f has
   not flushed is lost. *)
process_killed ==
    /\ pc = "loop"
    /\ wbuf' = <<>>
    /\ pc' = "idle"
    /\ candidates' = <<>>
    /\ file_path' = 0
    /\ previous_hash' = GENESIS
    /\ existing_ids' = {}
    /\ new_entries_count' = 0
    /\ out' = [kind |-> "stopped", how |-> "killed", unwritten |-> Len(wbuf)]
    /\ UNCHANGED <<now, signals, tamper, probe>>

(* datetime.utcnow() moves on. *)
tick ==
    /\ now < MaxNow
    /\ now' = now + 1
    /\ out' = NotRun
    /\ UNCHANGED <<signals, pc, candidates, file_path, previous_hash,
                   existing_ids, new_entries_count, wbuf, tamper, probe>>

----------------------------------------------------------------------------
(* verification/verify_signature.py *)

(* Variant of verify_entry_signature that checks the signature before it
   recomputes the hash. *)
verify_entry_signature_signature_first(entry, public_key_hex) ==
    LET signature_b64 == get(entry, "signature")
        entry_hash == get(entry, "entry_hash")
        prev == get(entry, "previous_hash")
    IN IF ~truthy(signature_b64) \/ ~truthy(entry_hash)
       THEN [result |-> FALSE, steps |-> <<>>]
       ELSE IF ~truthy(prev) THEN [result |-> FALSE, steps |-> <<>>]
       ELSE IF signature_b64.kind # "b64"
       THEN [result |-> FALSE, steps |-> <<"VerifyKey">>]
       ELSE IF ~ed25519_verify(public_key_hex, encode_utf8(entry_hash),
                               b64decode(signature_b64))
       THEN [result |-> FALSE, steps |-> <<"VerifyKey", "b64decode", "verify">>]
       ELSE [result |-> compute_entry_hash(entry, prev) = entry_hash,
             steps |-> <<"VerifyKey", "b64decode", "verify", "compute_entry_hash">>]

(* Lines 23-60: the value returned and the calls made on the way, in order.
   An exception raised on the way is caught at line 58 and gives False. *)
verify_entry_signature_run(entry, public_key_hex) ==
    LET signature_b64 == get(entry, "signature")
        entry_hash == get(entry, "entry_hash")
        prev == get(entry, "previous_hash")
    IN IF ~truthy(signature_b64) \/ ~truthy(entry_hash)
       THEN [result |-> FALSE, steps |-> <<>>]
       ELSE IF ~truthy(prev) THEN [result |-> FALSE, steps |-> <<>>]
       ELSE IF compute_entry_hash(entry, prev) # entry_hash
       THEN [result |-> FALSE, steps |-> <<"compute_entry_hash">>]
       ELSE IF signature_b64.kind # "b64"
       THEN [result |-> FALSE, steps |-> <<"compute_entry_hash", "VerifyKey">>]
       ELSE [result |-> ed25519_verify(public_key_hex, encode_utf8(entry_hash),
                                       b64decode(signature_b64)),
             steps |-> <<"compute_entry_hash", "VerifyKey", "b64decode", "verify">>]

verify_entry_signature(entry, public_key_hex) ==
    verify_entry_signature_run(entry, public_key_hex).result

----------------------------------------------------------------------------
(* verification/verify_chain.py *)

(* The loop of verify_file from line i on; the result is "True", "False", or
   "ValueError" when compute_entry_hash raises out of the function. *)
RECURSIVE verify_lines(_, _, _, _, _)
verify_lines(lines, i, public_key_hex, valid, log) ==
    IF i > Len(lines)
    THEN [result |-> IF valid THEN "True" ELSE "False", log |-> log]
    ELSE LET line == lines[i] IN
         IF is_blank(line)
         THEN verify_lines(lines, i + 1, public_key_hex, valid, log)
         ELSE IF ~is_json(line)
         THEN [result |-> "False", log |-> log \cup {<<i, "Invalid JSON">>}]
         ELSE LET entry == json_loads(line)
                  prev == get(entry, "previous_hash")
                  computed == compute_entry_hash(entry, prev)
              IN IF computed = ValueError
                 THEN [result |-> "ValueError", log |-> log]
                 ELSE LET bad_hash == computed # get(entry, "entry_hash")
                          bad_sig == ~verify_entry_signature(entry, public_key_hex)
                      IN verify_lines(lines, i + 1, public_key_hex,
                            valid /\ ~bad_hash /\ ~bad_sig,
                            log \cup (IF bad_hash THEN {<<i, "Hash Mismatch">>} ELSE {})
                                \cup (IF bad_sig THEN {<<i, "Invalid Signature">>} ELSE {}))

verify_file(path, public_key_hex) ==
    verify_lines(signals[path], 1, public_key_hex, TRUE, {})

(* sorted(os.listdir(SIGNALS_DIR)) from the given file on. *)
RECURSIVE verify_files(_, _, _, _)
verify_files(files, public_key_hex, all_valid, log) ==
    IF files = {}
    THEN [result |-> IF all_valid THEN "Chain Valid" ELSE "Chain Invalid",
          log |-> log]
    ELSE LET filename == CHOOSE d \in files : \A e \in files : d <= e
             r == verify_file(filename, public_key_hex)
             lg == log \cup {<<filename, e[1], e[2]>> : e \in r.log}
         IN IF r.result = "ValueError"
            THEN [result |-> "ValueError", log |-> lg]
            ELSE verify_files(files \ {filename}, public_key_hex,
                              all_valid /\ r.result = "True", lg)

(* Variant of verify_all whose all_valid starts out False over no files. *)
verify_all_needs_files(public_key_hex) ==
    verify_files(DOMAIN signals, public_key_hex, DOMAIN signals # {}, {})

verify_all(public_key_hex) ==
    verify_files(DOMAIN signals, public_key_hex, TRUE, {})

verify_chain_main ==
    /\ \E public_key_hex \in PublicKeys :
         LET r == verify_all(public_key_hex)
         IN out' = [kind |-> "verify_all", key |-> public_key_hex,
                    result |-> r.result, log |-> r.log]
    /\ out.kind # "verify_all"
    /\ UNCHANGED <<now, signals, pc, candidates, file_path, previous_hash,
                   existing_ids, new_entries_count, wbuf, tamper, probe>>

----------------------------------------------------------------------------
(* The store is a directory anyone with access can edit between runs: the
   modifications a verifier is there to detect. *)

TamperScores == {7, 9}

remove_at(lines, i) == SubSeq(lines, 1, i - 1) \o SubSeq(lines, i + 1, Len(lines))

without_key(entry, key) == [k \in DOMAIN entry \ {key} |-> entry[k]]

Edited == [kind |-> "edited"]

(* One edit of a partition, made while no batch runs.  The edits of the
   store are made in one go: a further edit follows the one before it
   directly. *)
edit_store(kind, d, i, lines) ==
    /\ Len(tamper) < MaxTamper
    /\ pc = "idle"
    /\ tamper = <<>> \/ out = Edited
    /\ signals' = [signals EXCEPT ![d] = lines]
    /\ tamper' = Append(tamper, [kind |-> kind, day |-> d, line |-> i,
                                 inner |-> 1 < i /\ i < Len(signals[d])])
    /\ out' = Edited
    /\ UNCHANGED <<now, pc, candidates, file_path, previous_hash,
                   existing_ids, new_entries_count, wbuf, probe>>

delete_line ==
    \E d \in DOMAIN signals : \E i \in 1..Len(signals[d]) :
        edit_store("delete", d, i, remove_at(signals[d], i))

swap_lines ==
    \E d \in DOMAIN signals : \E i \in 1..Len(signals[d]) :
        /\ i < Len(signals[d])
        /\ edit_store("swap", d, i,
              [signals[d] EXCEPT ![i] = signals[d][i + 1],
                                 ![i + 1] = signals[d][i]])

rewrite_score ==
    \E d \in DOMAIN signals : \E i \in 1..Len(signals[d]) :
        /\ is_json(signals[d][i])
        /\ \E v \in TamperScores :
            /\ v # get(json_loads(signals[d][i]), "score")
            /\ edit_store("rewrite_score", d, i,
                  [signals[d] EXCEPT ![i] =
                      json_dumps([json_loads(@) EXCEPT !["score"] = v])])

corrupt_line ==
    \E d \in DOMAIN signals : \E i \in 1..Len(signals[d]) :
        /\ signals[d][i] # BadLine
        /\ edit_store("corrupt", d, i, [signals[d] EXCEPT ![i] = BadLine])

(* An empty line after the last record, as an editor leaves it. *)
append_blank_line ==
    \E d \in DOMAIN signals :
        /\ signals[d] # <<>>
        /\ ~is_blank(signals[d][Len(signals[d])])
        /\ edit_store("blank", d, Len(signals[d]) + 1,
                      Append(signals[d], BlankLine))

drop_previous_hash ==
    \E d \in DOMAIN signals : \E i \in 1..Len(signals[d]) :
        /\ is_json(signals[d][i])
        /\ "previous_hash" \in DOMAIN json_loads(signals[d][i])
        /\ edit_store("drop_previous_hash", d, i,
              [signals[d] EXCEPT ![i] =
                  json_dumps(without_key(json_loads(@), "previous_hash"))])

----------------------------------------------------------------------------
(* verify_signature.py run on its own (lines 62-79): one record and one
   public key from the command line. *)

ProbeStates == {"ACCUMULATION", "UNWIND"}
ProbeTimestamps == {isoformat(0), isoformat(1)}
ProbeScores == {0, 7}

SomeEarlierHash ==
    compute_entry_hash(
        build_entry([token |-> <<"a">>, score |-> NoScore,
                     verdict |-> "BREAKOUT_EARLY",
                     timestamp_utc |-> isoformat(0)], GENESIS),
        GENESIS)

ProbePreviousHashes == {GENESIS, SomeEarlierHash, EmptyString}

ProbeBodies ==
    LET full == [asset : Assets, score : ProbeScores, state : ProbeStates,
                 ruleset_version : {"1.1.0"}, timestamp_utc : ProbeTimestamps,
                 previous_hash : ProbePreviousHashes]
    IN full \cup {without_key(e, "previous_hash") : e \in full}

hash_or_empty(body) ==
    LET h == compute_entry_hash(body, get(body, "previous_hash"))
    IN IF h = ValueError THEN EmptyString ELSE h

ProbeHashes(body) == {hash_or_empty(body), SomeEarlierHash, EmptyString}

with_slack(text, n) == [text EXCEPT !.slack = n]

ProbeSignatures(body) ==
    { with_slack(b64encode(ed25519_sign(sk, encode_utf8(h))), n) :
        sk \in PrivateKeys, h \in {hash_or_empty(body), SomeEarlierHash},
        n \in {0, 1} }
    \cup {b64encode(ed25519_sign(WriterKey, raw_digest(hash_or_empty(body))))}
    \cup {EmptyString}

ProbeEntries ==
    UNION { UNION { { finish_entry(body, h, sg) : sg \in ProbeSignatures(body) }
                    \cup { [k \in DOMAIN body \cup {"entry_hash"} |->
                              IF k = "entry_hash" THEN h ELSE body[k]] }
                    : h \in ProbeHashes(body) }
            : body \in ProbeBodies }

verify_signature_main ==
    /\ probe.kind = "probe"
    /\ out = NotRun
    /\ LET r == verify_entry_signature_run(probe.entry, probe.key)
       IN out' = [kind |-> "verify_entry", result |-> r.result,
                  steps |-> r.steps]
    /\ UNCHANGED <<now, signals, pc, candidates, file_path, previous_hash,
                   existing_ids, new_entries_count, wbuf, tamper, probe>>

----------------------------------------------------------------------------
(* verify_chain.py run on a store it did not write: the partitions hold any
   lines, among them records of the writer, such records with a field
   rewritten or removed, blank lines and lines that are not JSON. *)

writer_record(candidate, prev) ==
    LET entry == build_entry(candidate, prev)
        entry_hash == compute_entry_hash(entry, prev)
    IN finish_entry(entry, entry_hash, sign_entry(WriterKey, entry_hash))

StoreRecord1 ==
    writer_record(RowDict([token |-> <<"a">>, verdict |-> "ACCUMULATION",
                           score |-> NoScore, window_ends_at |-> 0]), GENESIS)

StoreRecord2 ==
    writer_record(RowDict([token |-> <<"b">>, verdict |-> "ACCUMULATION",
                           score |-> 7, window_ends_at |-> 0]),
                  StoreRecord1["entry_hash"])

StoreLines ==
    {BadLine, BlankLine, json_dumps(StoreRecord1), json_dumps(StoreRecord2),
     json_dumps(without_key(StoreRecord1, "previous_hash")),
     json_dumps([StoreRecord1 EXCEPT !["score"] = 9])}

(* A file ends where the writer has got to: only its last line can be the
   beginning of a record. *)
StoreFiles ==
    LET whole == UNION { [1..n -> StoreLines] : n \in 0..MaxStoreLines }
    IN whole \cup { Append(f, PartialLine(StoreRecord2)) :
                      f \in {g \in whole : Len(g) < MaxStoreLines} }

Stores == UNION { [D -> StoreFiles] : D \in SUBSET Days }

----------------------------------------------------------------------------
NoProbe == [kind |-> "none"]

Init ==
    /\ now = 0
    /\ signals = <<>>
    /\ pc = "idle"
    /\ candidates = <<>>
    /\ file_path = 0
    /\ previous_hash = GENESIS
    /\ existing_ids = {}
    /\ new_entries_count = 0
    /\ wbuf = <<>>
    /\ tamper = <<>>
    /\ out = NotRun
    /\ probe = NoProbe

Next ==
    \/ process_signals_begin
    \/ process_signals_candidate
    \/ flush
    \/ process_signals_end
    \/ tick
    \/ verify_chain_main
    \/ delete_line
    \/ swap_lines
    \/ rewrite_score
    \/ corrupt_line
    \/ drop_previous_hash
    \/ append_blank_line

Spec == Init /\ [][Next]_vars

InitEntry ==
    /\ now = 0
    /\ signals = <<>>
    /\ pc = "idle"
    /\ candidates = <<>>
    /\ file_path = 0
    /\ previous_hash = GENESIS
    /\ existing_ids = {}
    /\ new_entries_count = 0
    /\ wbuf = <<>>
    /\ tamper = <<>>
    /\ out = NotRun
    /\ probe \in [kind : {"probe"}, entry : ProbeEntries, key : PublicKeys]

NextEntry == verify_signature_main

SpecEntry == InitEntry /\ [][NextEntry]_vars

InitVerify ==
    /\ now = 0
    /\ signals \in Stores
    /\ pc = "idle"
    /\ candidates = <<>>
    /\ file_path = 0
    /\ previous_hash = GENESIS
    /\ existing_ids = {}
    /\ new_entries_count = 0
    /\ wbuf = <<>>
    /\ tamper = <<>>
    /\ out = NotRun
    /\ probe = NoProbe

NextVerify == verify_chain_main

SpecVerify == InitVerify /\ [][NextVerify]_vars

(* The writer on a store nobody edits, its runs ending in every way they
   can, and verifications at any moment. *)
NextWriter ==
    \/ process_signals_begin
    \/ process_signals_no_candidates
    \/ process_signals_no_signer
    \/ process_signals_candidate
    \/ flush
    \/ process_signals_end
    \/ process_signals_raises
    \/ process_killed
    \/ tick
    \/ verify_chain_main

SpecWriter == Init /\ [][NextWriter]_vars

----------------------------------------------------------------------------
(* Vocabulary of the properties *)

Untampered == tamper = <<>>

field_of(line, k) == IF is_json(line) THEN get(json_loads(line), k) ELSE NoneValue

NonEmptyDays == {d \in DOMAIN signals : signals[d] # <<>>}

PriorDays(d) == {e \in NonEmptyDays : e < d}

LastPriorDay(d) == CHOOSE e \in PriorDays(d) : \A x \in PriorDays(d) : x <= e

first_line(d) == signals[d][1]
last_line(d) == signals[d][Len(signals[d])]

(* The positions <<day, line>> of the stored lines. *)
Positions == UNION {{<<d, i>> : i \in 1..Len(signals[d])} : d \in DOMAIN signals}

same_identity(l1, l2) ==
    /\ field_of(l1, "asset") = field_of(l2, "asset")
    /\ field_of(l1, "timestamp_utc") = field_of(l2, "timestamp_utc")

VerifiedWith(pk) == out.kind = "verify_all" /\ out.key = pk

EveryRecordVerifiesAlone ==
    \A p \in Positions :
        /\ is_json(signals[p[1]][p[2]])
        /\ verify_entry_signature(json_loads(signals[p[1]][p[2]]), WriterPublicKey)

CrossLinkBroken ==
    \E d \in NonEmptyDays :
        /\ PriorDays(d) # {}
        /\ field_of(first_line(d), "previous_hash")
             # field_of(last_line(LastPriorDay(d)), "entry_hash")

----------------------------------------------------------------------------
(* C1: with no external modification of the store, the first record of every
   partition written while earlier partitions already hold records carries
   the entry_hash of the last record of the most recent earlier partition as
   its previous_hash, and only the first record ever written carries
   GENESIS. *)
C1_CrossPartitionContinuity ==
    Untampered =>
        \A d \in NonEmptyDays :
            field_of(first_line(d), "previous_hash") =
                IF PriorDays(d) = {} THEN GENESIS
                ELSE field_of(last_line(LastPriorDay(d)), "entry_hash")

(* C2: verify_all reports the chain invalid whenever the first record of some
   partition does not carry the entry_hash of the last record of the
   partition before it, even when every record passes its own hash and
   signature check. *)
C2_VerifyAllChecksCrossLinks ==
    (VerifiedWith(WriterPublicKey) /\ EveryRecordVerifiesAlone /\ CrossLinkBroken)
        => out.result # "Chain Valid"

(* C7: with no external modification of the store, no two stored records,
   in the same partition or in different ones, have the same asset and
   timestamp_utc. *)
C7_IdentityUniqueAcrossLedger ==
    Untampered =>
        \A p, q \in Positions :
            p # q => ~same_identity(signals[p[1]][p[2]], signals[q[1]][q[2]])

(* C3: after a record has been removed from the middle of a partition, or two
   records of a partition have been swapped, each record left intact, chain
   verification fails. *)
C3_DeletionAndReorderingDetected ==
    ( /\ VerifiedWith(WriterPublicKey)
      /\ Len(tamper) = 1
      /\ \/ tamper[1].kind = "swap"
         \/ /\ tamper[1].kind = "delete"
            /\ tamper[1].inner )
        => out.result # "Chain Valid"

(* C4: chain verification fails when the first record of the earliest
   partition carries a previous_hash other than GENESIS. *)
C4_FirstRecordAnchoredToGenesis ==
    ( /\ out.kind = "verify_all"
      /\ NonEmptyDays # {}
      /\ \E d \in NonEmptyDays :
            /\ PriorDays(d) = {}
            /\ is_json(first_line(d))
            /\ field_of(first_line(d), "previous_hash") # GENESIS )
        => out.result # "Chain Valid"

(* The stored records in chain order: partitions in name order, lines in
   stored order. *)
RECURSIVE chain_from(_)
chain_from(days) ==
    IF days = {} THEN <<>>
    ELSE LET d == CHOOSE x \in days : \A y \in days : x <= y
         IN [i \in 1..Len(signals[d]) |-> <<d, i>>] \o chain_from(days \ {d})

Chain == chain_from(DOMAIN signals)

ReportedAt(p) == \E e \in out.log : e[1] = p[1] /\ e[2] = p[2]

ScoreOfRecord1Rewritten ==
    /\ Len(Chain) = 2
    /\ Len(tamper) = 1
    /\ tamper[1].kind = "rewrite_score"
    /\ <<tamper[1].day, tamper[1].line>> = Chain[1]

(* C9: in a two-record chain written by the writer whose first record's score
   was rewritten in the store, verification with the writer's public key
   reports the chain invalid, reports record 1 and does not report
   record 2. *)
C9_TamperLocalisedAtRecord1 ==
    (VerifiedWith(WriterPublicKey) /\ ScoreOfRecord1Rewritten) =>
        /\ out.result = "Chain Invalid"
        /\ ReportedAt(Chain[1])
        /\ ~ReportedAt(Chain[2])

C9_Witness ==
    /\ VerifiedWith(WriterPublicKey)
    /\ ScoreOfRecord1Rewritten
    /\ <<Chain[1][1], Chain[1][2], "Hash Mismatch">> \in out.log

(* C10: when a partition holds a non-blank line that is not JSON, the
   verification reports that partition failed at that line and the chain
   invalid. *)
C10_MalformedLineFailsFast ==
    out.kind = "verify_all" =>
        \A p \in Positions :
            ( /\ signals[p[1]][p[2]] = BadLine
              /\ \A i \in 1..(p[2] - 1) : signals[p[1]][i] # BadLine )
            => /\ out.result = "Chain Invalid"
               /\ <<p[1], p[2], "Invalid JSON">> \in out.log

(* C5: every record process_signals builds, hashes, signs and appends is
   accepted by verify_entry_signature under the public key of the writer's
   private key, and a verification of the unmodified store with that key
   reports no record. *)
C5_WriterRecordsVerify ==
    Untampered =>
        /\ \A p \in Positions :
              verify_entry_signature(json_loads(signals[p[1]][p[2]]),
                                     WriterPublicKey)
        /\ \A i \in 1..Len(wbuf) :
              verify_entry_signature(json_loads(wbuf[i]), WriterPublicKey)
        /\ VerifiedWith(WriterPublicKey) => out.log = {}

C5_Witness ==
    /\ Untampered
    /\ VerifiedWith(WriterPublicKey)
    /\ out.result = "Chain Valid"
    /\ \E p, q \in Positions :
          /\ field_of(signals[p[1]][p[2]], "score") = 0
          /\ field_of(signals[p[1]][p[2]], "previous_hash") # GENESIS
          /\ field_of(signals[q[1]][q[2]], "score") = 7
          /\ field_of(signals[q[1]][q[2]], "previous_hash") = GENESIS

(* The records of a partition, those written and not yet flushed included. *)
PartitionLines(d) ==
    signals[d] \o (IF pc = "loop" /\ file_path = d THEN wbuf ELSE <<>>)

AlreadyInPartition(candidate) ==
    \E i \in 1..Len(PartitionLines(file_path)) :
        LET line == PartitionLines(file_path)[i]
        IN /\ is_json(line)
           /\ field_of(line, "asset") = candidate.token
           /\ field_of(line, "timestamp_utc") = candidate.timestamp_utc

OneRecordPerIdentityInPartition ==
    \A d \in DOMAIN signals :
        \A i, j \in 1..Len(PartitionLines(d)) :
            (i # j /\ is_json(PartitionLines(d)[i]) /\ is_json(PartitionLines(d)[j]))
                => ~same_identity(PartitionLines(d)[i], PartitionLines(d)[j])

SecondOccurrenceSkipped ==
    ( /\ pc = "loop"
      /\ pc' = "loop"
      /\ candidates # <<>>
      /\ candidates' = Tail(candidates)
      /\ AlreadyInPartition(Head(candidates)) )
        => UNCHANGED <<signals, wbuf, previous_hash, new_entries_count>>

(* C8: a partition never holds two records for one (asset, timestamp_utc),
   whether the candidate is offered twice in one batch or again in a later
   batch of the same day, and the step that meets the second occurrence
   changes neither the store nor the previous_hash carried on. *)
C8_AppendIdempotentInPartition ==
    []OneRecordPerIdentityInPartition /\ [][SecondOccurrenceSkipped]_vars

C8_Witness ==
    /\ pc = "loop"
    /\ candidates = <<>>
    /\ new_entries_count = 0
    /\ wbuf = <<>>
    /\ Len(signals[file_path]) = 1
    /\ previous_hash = field_of(last_line(file_path), "entry_hash")

(* What the record itself says about its hash and its signature. *)
HashMatches(entry) ==
    LET prev == get(entry, "previous_hash")
    IN /\ isinstance_str(prev)
       /\ compute_entry_hash(entry, prev) = get(entry, "entry_hash")

SignatureValid(entry, public_key_hex) ==
    /\ get(entry, "signature").kind = "b64"
    /\ ed25519_verify(public_key_hex, encode_utf8(get(entry, "entry_hash")),
                      get(entry, "signature").bytes)

ProbeValues(entry, k) ==
    CASE k = "asset" -> Assets
      [] k = "score" -> ProbeScores
      [] k = "state" -> ProbeStates
      [] k = "timestamp_utc" -> ProbeTimestamps
      [] k = "previous_hash" -> ProbePreviousHashes
      [] k = "entry_hash" -> ProbeHashes(entry)
      [] OTHER -> ProbeSignatures(entry)

AlteredField == {"asset", "score", "state", "timestamp_utc", "previous_hash",
                 "entry_hash", "signature"}

Alterations(entry) ==
    UNION { { [entry EXCEPT ![k] = v] : v \in ProbeValues(entry, k) \ {entry[k]} }
            : k \in AlteredField \cap DOMAIN entry }

(* C6: verify_entry_signature returns true iff the hash recomputed from the
   record's fields and its own previous_hash equals the stored entry_hash and
   the stored signature is a valid signature of that hash's hex string under
   the given key; and changing a hashed field, the entry_hash or the
   signature of an accepted record makes it return false. *)
C6_VerifyEntryIffHashAndSignature ==
    out.kind = "verify_entry" =>
        /\ out.result <=> (HashMatches(probe.entry)
                            /\ SignatureValid(probe.entry, probe.key))
        /\ out.result =>
              \A altered \in Alterations(probe.entry) :
                  ~verify_entry_signature(altered, probe.key)

----------------------------------------------------------------------------
NoRecords(d) == \A i \in 1..Len(signals[d]) : is_blank(signals[d][i])

(* C11: verifying a store with no partition, or one whose partitions hold no
   record (no line, or blank lines only), reports the chain valid and
   reports no line. *)
C11_EmptyChainValid ==
    (out.kind = "verify_all" /\ \A d \in DOMAIN signals : NoRecords(d))
        => /\ out.result = "Chain Valid"
           /\ out.log = {}

C11_Witness ==
    /\ out.kind = "verify_all"
    /\ DOMAIN signals = {}
    /\ out.result = "Chain Valid"

----------------------------------------------------------------------------
EndsInPartialLine(d) ==
    /\ signals[d] # <<>>
    /\ last_line(d).kind = "partial"

(* C12: when verification reads a partition whose last line is the beginning
   of a record the writer has not finished writing, it does not report that
   line and does not report the partition failed because of it. *)
C12_PartialTrailingLineTolerated ==
    out.kind = "verify_all" =>
        \A d \in DOMAIN signals :
            EndsInPartialLine(d) =>
                \A e \in out.log : ~(e[1] = d /\ e[2] = Len(signals[d]))

----------------------------------------------------------------------------
RequiredForVerification == {"signature", "entry_hash", "previous_hash"}

LacksRequiredField(line) ==
    /\ is_json(line)
    /\ ~(RequiredForVerification \subseteq DOMAIN json_loads(line))

(* C13: a record without signature, entry_hash or previous_hash is rejected
   by verify_entry_signature, and the verification of a store holding such a
   record ends with the chain reported invalid, not with an error raised out
   of the verification. *)
C13_MissingFieldFailsCleanly ==
    out.kind = "verify_all" =>
        \A p \in Positions :
            LacksRequiredField(signals[p[1]][p[2]]) =>
                /\ ~verify_entry_signature(json_loads(signals[p[1]][p[2]]), out.key)
                /\ out.result = "Chain Invalid"

----------------------------------------------------------------------------
(* engine/hashing.py called on its own.  A dict is the sequence of its
   <<key, value>> items in insertion order, keys distinct. *)

keys(d) == {d[i][1] : i \in 1..Len(d)}

value_of(d, k) == d[CHOOSE i \in 1..Len(d) : d[i][1] = k][2]

(* entry_dict.copy() *)
copy(d) == d

(* clean_entry.pop(k, None), the dict after the call *)
pop(d, k) == SelectSeq(d, LAMBDA item : item[1] # k)

(* Variant of the serialisation without sort_keys: the items as inserted. *)
json_dumps_insertion_order(d) == d

(* json.dumps(clean_entry, sort_keys=True, separators=(',', ':')): the items
   by key, whatever order they were inserted in. *)
json_dumps_sort_keys(d) == [k \in keys(d) |-> value_of(d, k)]

(* The dict as a mapping from its keys. *)
as_mapping(d) == [k \in keys(d) |-> value_of(d, k)]

(* compute_entry_hash, lines 20-39: what it returns or raises, and the
   caller's dict after the call.  The keys are popped from a copy. *)
compute_entry_hash_call(entry_dict, prev) ==
    IF ~isinstance_str(prev)
    THEN [result |-> ValueError, entry_dict |-> entry_dict]
    ELSE LET cleaned == pop(pop(copy(entry_dict), "entry_hash"), "signature")
             serialized_json == json_dumps_sort_keys(cleaned)
         IN [result |-> sha256(<<serialized_json, prev>>),
             entry_dict |-> entry_dict]

HashFields ==
    [asset : Assets, score : ProbeScores,
     entry_hash : {SomeEarlierHash, EmptyString}, signature : {EmptyString}]

HashKeySets ==
    {{"asset", "score"} \cup K : K \in SUBSET {"entry_hash", "signature"}}

InsertionOrders(K) ==
    {order \in [1..Cardinality(K) -> K] : {order[i] : i \in DOMAIN order} = K}

(* The dicts over a key set: every insertion order, every value. *)
DictsOver(K) ==
    { [i \in DOMAIN order |-> <<order[i], f[order[i]]>>] :
        order \in InsertionOrders(K), f \in HashFields }

HashDicts == UNION {DictsOver(K) : K \in HashKeySets}

(* Arguments of other shapes a caller can pass: a number, and a string that
   is neither a digest nor "GENESIS". *)
SomeNumber == [kind |-> "number"]
NonHexString == [kind |-> "text"]

HashPreviousHashes ==
    {GENESIS, SomeEarlierHash, NoneValue, SomeNumber, EmptyString, NonHexString}

compute_entry_hash_main ==
    /\ probe.kind = "hash"
    /\ out = NotRun
    /\ LET r == compute_entry_hash_call(probe.entry_dict, probe.previous_hash)
       IN /\ out' = [kind |-> "hash", result |-> r.result]
          /\ probe' = [probe EXCEPT !.entry_dict = r.entry_dict]
    /\ UNCHANGED <<now, signals, pc, candidates, file_path, previous_hash,
                   existing_ids, new_entries_count, wbuf, tamper>>

InitHash ==
    /\ now = 0
    /\ signals = <<>>
    /\ pc = "idle"
    /\ candidates = <<>>
    /\ file_path = 0
    /\ previous_hash = GENESIS
    /\ existing_ids = {}
    /\ new_entries_count = 0
    /\ wbuf = <<>>
    /\ tamper = <<>>
    /\ out = NotRun
    /\ probe \in { [kind |-> "hash", entry_dict |-> d, given |-> d,
                    previous_hash |-> p] :
                      d \in HashDicts, p \in HashPreviousHashes }

NextHash == compute_entry_hash_main

SpecHash == InitHash /\ [][NextHash]_vars

(* The fields the hash is of. *)
logical_fields(d) == as_mapping(pop(pop(d, "entry_hash"), "signature"))

(* C14: compute_entry_hash returns the same digest for every dict with the
   same fields other than entry_hash and signature, in whatever order the
   keys were inserted and whatever entry_hash and signature it carries, with
   the same previous_hash; the digest is the one of the fields as a mapping;
   and the caller's dict is the same after the call as before. *)
C14_ComputeEntryHashPure ==
    out.kind = "hash" =>
        /\ probe.entry_dict = probe.given
        /\ \A other \in HashDicts :
              logical_fields(other) = logical_fields(probe.given) =>
                  compute_entry_hash_call(other, probe.previous_hash).result
                      = out.result
        /\ out.result = compute_entry_hash(as_mapping(probe.given),
                                           probe.previous_hash)

C14_Witness ==
    /\ out.kind = "hash"
    /\ out.result.kind = "sha256"
    /\ Len(probe.given) = 4
    /\ probe.given[1][1] = "signature"
    /\ probe.given[4][1] = "asset"
    /\ value_of(probe.given, "entry_hash") = SomeEarlierHash

----------------------------------------------------------------------------
(* The instant a timestamp_utc text stands for. *)
instant(timestamp) == CHOOSE t \in DOMAIN Digit : isoformat(t) = timestamp

timestamp_at(p) == field_of(signals[p[1]][p[2]], "timestamp_utc")

(* C15: with no external modification of the store, the records of the chain
   are in non-decreasing timestamp_utc order, also after a later batch whose
   look-back returns a candidate not yet stored and earlier than a record
   already appended. *)
C15_RecordOrderIsTemporalOrder ==
    Untampered =>
        \A i, j \in 1..Len(Chain) :
            i < j => instant(timestamp_at(Chain[i])) <= instant(timestamp_at(Chain[j]))

----------------------------------------------------------------------------
(* The previous_hash that went into a record's entry_hash. *)
hashed_previous_hash(line) == field_of(line, "entry_hash").of[2]

(* C16: with no external modification of the store, in every partition each
   record after the first carries the entry_hash of the record written just
   before it as previous_hash, across the batches of the day, and the
   previous_hash a record carries is the one its entry_hash was computed
   with. *)
C16_ChainedWithinPartition ==
    Untampered =>
        \A d \in DOMAIN signals :
            \A i \in 1..Len(PartitionLines(d)) :
                /\ i > 1 =>
                      field_of(PartitionLines(d)[i], "previous_hash")
                          = field_of(PartitionLines(d)[i - 1], "entry_hash")
                /\ hashed_previous_hash(PartitionLines(d)[i])
                      = field_of(PartitionLines(d)[i], "previous_hash")

C16_Witness ==
    /\ Untampered
    /\ pc = "loop"
    /\ new_entries_count = 1
    /\ Len(signals[file_path]) = 1
    /\ Len(wbuf) = 1
    /\ field_of(wbuf[1], "previous_hash") = field_of(signals[file_path][1], "entry_hash")

----------------------------------------------------------------------------
HoldsRecord(lines) == \E i \in 1..Len(lines) : is_json(lines[i])

(* C17: a batch never writes a record with previous_hash GENESIS into a
   partition that already holds a record, whatever the last line of that
   partition is. *)
C17_LoadFailureNotMasked ==
    pc = "loop" =>
        \A i \in 1..Len(wbuf) :
            field_of(wbuf[i], "previous_hash") = GENESIS
                => ~HoldsRecord(signals[file_path])

----------------------------------------------------------------------------
SignatureSteps == {"VerifyKey", "b64decode", "verify"}

StepsOf(run) == {run.steps[i] : i \in 1..Len(run.steps)}

(* C18: when the hash recomputed from a record differs from its stored
   entry_hash, verify_entry_signature returns false without building the
   verify key or verifying any signature, whichever signature the record
   carries and whichever public key is given. *)
C18_HashCheckBeforeSignatureCheck ==
    (out.kind = "verify_entry" /\ ~HashMatches(probe.entry)) =>
        /\ ~out.result
        /\ StepsOf(out) \cap SignatureSteps = {}
        /\ \A pk \in PublicKeys :
              \A sg \in ProbeSignatures(probe.entry) :
                  LET run == verify_entry_signature_run(
                                [k \in DOMAIN probe.entry \cup {"signature"} |->
                                    IF k = "signature" THEN sg ELSE probe.entry[k]],
                                pk)
                  IN ~run.result /\ StepsOf(run) \cap SignatureSteps = {}

C18_Witness ==
    /\ out.kind = "verify_entry"
    /\ ~HashMatches(probe.entry)
    /\ SignatureValid(probe.entry, probe.key)
    /\ out.steps = <<"compute_entry_hash">>
    /\ ~out.result

----------------------------------------------------------------------------
RecordFields == {"asset", "score", "state", "ruleset_version", "timestamp_utc",
                 "previous_hash", "entry_hash", "signature"}

FullyFormed(line) ==
    /\ is_json(line)
    /\ DOMAIN json_loads(line) = RecordFields
    /\ HashMatches(json_loads(line))
    /\ SignatureValid(json_loads(line), WriterPublicKey)

(* C19: with no external modification of the store, at every moment of a
   batch, also after a batch ended by an exception or was stopped halfway,
   every line of every partition is one complete record with all eight
   fields, hashed and signed before it was written. *)
C19_StoredRecordsFullyFormed ==
    Untampered =>
        \A p \in Positions : FullyFormed(signals[p[1]][p[2]])

C19_Witness ==
    /\ Untampered
    /\ out.kind = "stopped"
    /\ out.how = "killed"
    /\ out.unwritten > 0
    /\ \E p \in Positions : FullyFormed(signals[p[1]][p[2]])

----------------------------------------------------------------------------
UsableKey(private_key_hex) == private_key_hex.kind = "hex"

StartedWithoutUsableKey(o) == o.kind = "process_signals" /\ ~UsableKey(o.key)

(* C20: a run of process_signals that finds no private key, or one that
   cannot be decoded, ends at once: it fetches no candidates, opens no file
   and leaves every partition as it was. *)
C20_MissingKeyFatalBeforeWrite ==
    [][StartedWithoutUsableKey(out')
          => /\ pc' = "idle"
             /\ candidates' = <<>>
             /\ UNCHANGED <<signals, wbuf, file_path>>]_vars

C20_Witness ==
    /\ StartedWithoutUsableKey(out)
    /\ pc = "idle"
    /\ \E p \in Positions : is_json(signals[p[1]][p[2]])

-----------------------------------------------------------------------------
(* Appending leaves what is stored alone *)

is_prefix(s, t) == Len(s) <= Len(t) /\ SubSeq(t, 1, Len(s)) = s

(* The partition the run in progress works on: the one line 73 names when
   the run starts, the open file afterwards. *)
ActivePartition == IF pc = "idle" THEN get_today_file_path(now) ELSE file_path

(* A step in which a run that set up its signer returns without having
   fetched any candidate. *)
ReturnsWithoutCandidates ==
    /\ pc = "idle" /\ pc' = "idle"
    /\ out'.kind = "process_signals"
    /\ UsableKey(out'.key)

(* C21: every step of the writer keeps each partition, and keeps what it
   held as a prefix of what it holds afterwards, so that no stored record is
   modified, reordered or removed; a partition that changes or appears is
   the one of the UTC day on which the run started; a run that fetched no
   candidates leaves the set of partitions as it was. *)
C21_AppendOnlyFrame ==
    [][ /\ \A d \in DOMAIN signals :
              d \in DOMAIN signals' /\ is_prefix(signals[d], signals'[d])
        /\ \A d \in DOMAIN signals' :
              (d \notin DOMAIN signals \/ signals'[d] # signals[d])
                  => d = ActivePartition
        /\ pc = "idle" /\ pc' = "loop" => file_path' = get_today_file_path(now)
        /\ ReturnsWithoutCandidates => DOMAIN signals' = DOMAIN signals ]_vars

(* A later run has appended a second record after the one an earlier run
   stored in the same partition. *)
C21_Witness ==
    /\ pc = "loop"
    /\ new_entries_count = 1
    /\ wbuf = <<>>
    /\ Len(signals[file_path]) = 2

-----------------------------------------------------------------------------
(* The previous hash that compute_entry_hash takes *)

(* A 64-hex-character digest or the literal "GENESIS". *)
WellFormedPreviousHash(p) == p = GENESIS \/ p.kind = "sha256"

(* C22: compute_entry_hash returns a digest exactly for a previous_hash that
   is a digest or "GENESIS", and raises ValueError for every other one. *)
C22_PreviousHashConstraintEnforced ==
    probe.kind = "hash" /\ out.kind = "hash"
        => (out.result # ValueError <=> WellFormedPreviousHash(probe.previous_hash))

-----------------------------------------------------------------------------
(* The identity the duplicate check compares *)

MaxStored == 1

(* Token names of any shape a row of token_state_60s can hold: with the
   separator inside, at the end, and followed by what looks like a
   timestamp. *)
DedupAssets == {<<"a">>, <<"a", "_">>, <<"a", "_", "T", "0">>}

DedupRows ==
    [token : DedupAssets, verdict : Verdicts, score : {7},
     window_ends_at : 0..MaxNow]

(* The lines an earlier run has written for the rows, chained from prev. *)
RECURSIVE written(_, _)
written(rows, prev) ==
    IF rows = <<>> THEN <<>>
    ELSE LET record == writer_record(RowDict(Head(rows)), prev)
         IN <<json_dumps(record)>> \o written(Tail(rows), record["entry_hash"])

DedupStored ==
    { q \in UNION { [1..n -> DedupRows] : n \in 0..MaxStored } :
        \A i, j \in 1..Len(q) :
            i # j => <<q[i].token, q[i].window_ends_at>>
                        # <<q[j].token, q[j].window_ends_at>> }

DedupBatches ==
    { [i \in 1..Len(q) |-> RowDict(q[i])] :
        q \in { r \in UNION { [1..n -> DedupRows] : n \in 1..MaxBatch } :
                    Ordered(r) } }

(* process_signals after lines 51-96, for today's partition as earlier runs
   left it and for the batch that was fetched. *)
InitDedup ==
    /\ now = 0
    /\ file_path = get_today_file_path(now)
    /\ \E stored \in DedupStored :
          signals = (file_path :> written(stored, GENESIS))
    /\ pc = "loop"
    /\ candidates \in DedupBatches
    /\ previous_hash = IF load_last_entry(file_path) = NoneValue THEN GENESIS
                       ELSE load_last_entry(file_path)["entry_hash"]
    /\ existing_ids = ids_of(existing_entries(file_path))
    /\ new_entries_count = 0
    /\ wbuf = <<>>
    /\ tamper = <<>>
    /\ out = [kind |-> "process_signals", key |-> HexKey(WriterKey)]
    /\ probe = NoProbe

NextDedup ==
    \/ process_signals_candidate
    \/ flush
    \/ process_signals_end

SpecDedup == InitDedup /\ [][NextDedup]_vars

(* The (asset, timestamp_utc) pairs in sight: of the records of the active
   partition, written or about to be, and of the candidates left. *)
PairsInSight ==
    {<<field_of(PartitionLines(file_path)[i], "asset"),
       field_of(PartitionLines(file_path)[i], "timestamp_utc")>> :
        i \in 1..Len(PartitionLines(file_path))}
    \cup {<<candidates[i].token, candidates[i].timestamp_utc>> :
            i \in 1..Len(candidates)}

IdentityKeysDistinct ==
    pc = "loop" =>
        \A p, q \in PairsInSight :
            uid_of(p[1], p[2]) = uid_of(q[1], q[2]) => p = q

(* The step that passes over the candidate at the head of the batch. *)
SkipsCandidate ==
    /\ pc = "loop"
    /\ pc' = "loop"
    /\ candidates # <<>>
    /\ candidates' = Tail(candidates)
    /\ wbuf' = wbuf

(* C23: a candidate is passed over only when the active partition, with
   what the batch has appended so far, holds a record with exactly its asset
   and exactly its timestamp_utc; and two different (asset, timestamp_utc)
   pairs never give the same identity key. *)
C23_DedupNeverDropsNewRecord ==
    /\ []IdentityKeysDistinct
    /\ [][SkipsCandidate => AlreadyInPartition(Head(candidates))]_vars

(* A candidate whose asset differs from a stored one only by what follows
   the separator has been appended next to it. *)
C23_Witness ==
    /\ pc = "loop"
    /\ candidates = <<>>
    /\ new_entries_count = 1
    /\ Len(PartitionLines(file_path)) = 2
    /\ field_of(PartitionLines(file_path)[1], "asset") = <<"a">>
    /\ field_of(PartitionLines(file_path)[2], "asset") = <<"a", "_", "T", "0">>
    /\ out = NotRun

====
